---- MODULE Spec2Model ----
(***************************************************************************)
(* Model of the CSP construction and solving core of vlm-puzzle-solving:   *)
(* PuzzleState, CSPProblem, CSPTranslator, CSPSolver (python-constraint),  *)
(* ORToolsSolver (CP-SAT) and SolverFactory.                               *)
(*                                                                         *)
(* Python strings are modelled as sequences of one-character strings so    *)
(* that startswith, split, int() and f-string formatting are computed the  *)
(* way the code computes them.                                             *)
(***************************************************************************)
EXTENDS Integers, Sequences, FiniteSets, TLC

VARIABLES
    backend,        \* argument of SolverFactory.create_solver
    kwargs,         \* names of the keyword options passed to create_solver
    ortoolsLib,     \* TRUE iff `ortools` can be imported (cp_model is not None)
    constraintLib,  \* TRUE iff `constraint` can be imported (Problem is not None)
    solver,         \* outcome of create_solver: a solver record or an exception
    rules,          \* ConstraintRuleSet.rules
    state,          \* PuzzleState
    csp,            \* outcome of CSPTranslator.translate: CSPProblem, None, or not yet run
    mainPc,         \* position of the caller inside solve
    problem,        \* python-constraint Problem built by _build_constraint_problem
    workerPc,       \* position of the solve_worker thread
    deadline,       \* TRUE once the join deadline of solver_thread.join has elapsed
    solution_container,
    error_container,
    timedOut,       \* TRUE iff solve ended because its time budget ran out
    result,         \* value returned by solve
    custom,         \* constraints the caller adds with add_constraint: those
                    \* still to add, and how many it has added
    consistency,    \* outcome of a call of CSPProblem.is_consistent
    stage,          \* step PuzzleSolver.solve_puzzle is at
    puzzle_result,  \* the result dict of solve_puzzle
    calls,          \* the calls the caller makes on the solver, in order
    callIndex,      \* the call of `calls` the caller is at
    swt,            \* solve_with_timeout: whether it is running, and its
                    \* local original_timeout
    worker_solution,\* what problem.getSolution() returned in the worker of
                    \* the latest solve call
    abandoned       \* the workers of earlier solve calls that had not ended
                    \* when the next call started, each with the problem and
                    \* the containers of its call

vars == <<backend, kwargs, ortoolsLib, constraintLib, solver, rules, state, csp,
          mainPc, problem, workerPc, deadline, solution_container,
          error_container, timedOut, result, custom, consistency, stage,
          puzzle_result, calls, callIndex, swt, worker_solution, abandoned>>

callVars == <<calls, callIndex, swt, worker_solution, abandoned>>

None == "None"
NotRun == "NotRun"

(***************************************************************************)
(* Bounds of the model.                                                    *)
(***************************************************************************)
MaxRules == 2          \* longest rule list drawn from RulePool
MaxSearchSpace == 8    \* largest search space a search is modelled to finish

(***************************************************************************)
(* Python string primitives.                                               *)
(***************************************************************************)
Digits == <<"0", "1", "2", "3", "4", "5", "6", "7", "8", "9">>

IsDigit(ch) == \E i \in 1..10 : Digits[i] = ch

DigitVal(ch) == (CHOOSE i \in 1..10 : Digits[i] = ch) - 1

\* str.startswith
startswith(s, p) == Len(s) >= Len(p) /\ SubSeq(s, 1, Len(p)) = p

\* `sub in s` for strings
Contains(s, sub) ==
    \E i \in 1..(Len(s) + 1) :
        i + Len(sub) - 1 <= Len(s) /\ SubSeq(s, i, i + Len(sub) - 1) = sub

\* item.split("_")[1]; every caller has checked a prefix ending in "_"
\* first, so the list has at least two fields
split1(s) ==
    LET us == {i \in 1..Len(s) : s[i] = "_"}
        first == CHOOSE i \in us : \A j \in us : i <= j
        later == {i \in us : i > first}
        stop == IF later = {} THEN Len(s) + 1
                ELSE CHOOSE i \in later : \A j \in later : i <= j
    IN SubSeq(s, first + 1, stop - 1)

RECURSIVE DigitsValue(_)
DigitsValue(s) ==
    IF Len(s) = 0 THEN 0
    ELSE 10 * DigitsValue(SubSeq(s, 1, Len(s) - 1)) + DigitVal(s[Len(s)])

AllDigits(s) == Len(s) > 0 /\ \A i \in 1..Len(s) : IsDigit(s[i])

\* int(s) raises ValueError unless s is an optionally signed run of digits
IntParses(s) ==
    \/ AllDigits(s)
    \/ Len(s) > 1 /\ s[1] \in {"-", "+"} /\ AllDigits(Tail(s))

\* int(s) when it does not raise
int(s) ==
    IF s[1] = "-" THEN 0 - DigitsValue(Tail(s))
    ELSE IF s[1] = "+" THEN DigitsValue(Tail(s))
    ELSE DigitsValue(s)

RECURSIVE NatStr(_)
NatStr(n) ==
    IF n < 10 THEN <<Digits[n + 1]>>
    ELSE NatStr(n \div 10) \o <<Digits[(n % 10) + 1]>>

\* f"{n}" for an int
str(n) == IF n < 0 THEN <<"-">> \o NatStr(0 - n) ELSE NatStr(n)

ROW == <<"r", "o", "w", "_">>
COL == <<"c", "o", "l", "_">>
BOX == <<"b", "o", "x", "_">>
CELL == <<"c", "e", "l", "l", "_">>

\* f"cell_{row}_{col}"
CellName(row, col) == CELL \o str(row) \o <<"_">> \o str(col)

(***************************************************************************)
(* Python containers.                                                      *)
(***************************************************************************)
EmptyDict == [k \in {} |-> 0]

\* a list or a dict held as a value, not as a comprehension still to be run
List(s) == s \o <<>>
Dict(d) == d @@ EmptyDict

\* dict.get(key, default)
Get(d, key, default) == IF key \in DOMAIN d THEN d[key] ELSE default

\* list(range(1, 10))
Range1To10 == [i \in 1..9 |-> i]

\* set(values) of a list
ListSet(s) == {s[i] : i \in 1..Len(s)}

RECURSIVE ListSum(_)
ListSum(s) == IF Len(s) = 0 THEN 0 ELSE s[1] + ListSum(Tail(s))

RECURSIVE ConcatUpTo(_, _)
ConcatUpTo(ss, k) == IF k = 0 THEN <<>> ELSE ConcatUpTo(ss, k - 1) \o ss[k]

\* concatenation of a list of lists
Concat(ss) == ConcatUpTo(ss, Len(ss))

(***************************************************************************)
(* core/constraint_rules.py                                                *)
(***************************************************************************)
ConstraintType ==
    [ALL_DIFFERENT |-> <<"a", "l", "l", "_", "d", "i", "f", "f", "e", "r", "e", "n", "t">>,
     SUM |-> <<"s", "u", "m">>,
     ARITHMETIC |-> <<"a", "r", "i", "t", "h", "m", "e", "t", "i", "c">>,
     ADJACENCY |-> <<"a", "d", "j", "a", "c", "e", "n", "c", "y">>,
     CUSTOM |-> <<"c", "u", "s", "t", "o", "m">>]

ConstraintRule(type, scope, parameters) ==
    [constraint_type |-> type, scope |-> scope, parameters |-> parameters]

(***************************************************************************)
(* core/puzzle_state.py                                                    *)
(***************************************************************************)
GridCells(grid_size) ==
    {<<i, j>> : i \in 0..(grid_size[1] - 1), j \in 0..(grid_size[2] - 1)}

\* __post_init__ on the fields given to the constructor
post_init(grid_size, filled_cells, empty_cells, domains) ==
    LET rows == grid_size[1]
        cols == grid_size[2]
        all_cells == [k \in 1..(rows * cols) |-> <<(k - 1) \div cols, (k - 1) % cols>>]
    IN [grid_size |-> grid_size,
        filled_cells |-> filled_cells,
        empty_cells |->
            IF Len(empty_cells) = 0 /\ DOMAIN filled_cells = {}
            THEN List(SelectSeq(all_cells, LAMBDA cell : cell \notin DOMAIN filled_cells))
            ELSE empty_cells,
        domains |->
            IF DOMAIN domains = {}
            THEN [cell \in GridCells(grid_size) \ DOMAIN filled_cells |-> Range1To10]
            ELSE domains]

\* PuzzleState(grid_size=..., filled_cells=..., domains=...): the empty-cell
\* list is left to its default
PuzzleState(grid_size, filled_cells, domains) ==
    post_init(grid_size, filled_cells, <<>>, domains)

get_cell_value(st, row, col) == Get(st.filled_cells, <<row, col>>, None)

to_grid(st) ==
    [r \in 1..st.grid_size[1] |->
        [c \in 1..st.grid_size[2] |-> Get(st.filled_cells, <<r - 1, c - 1>>, None)]]

\* get_domain that forgets the recorded candidate domains
get_domain_default(st, row, col) ==
    IF <<row, col>> \in DOMAIN st.filled_cells
    THEN <<st.filled_cells[<<row, col>>]>>
    ELSE Range1To10

get_domain(st, row, col) ==
    IF <<row, col>> \in DOMAIN st.filled_cells
    THEN <<st.filled_cells[<<row, col>>]>>
    ELSE Get(st.domains, <<row, col>>, Range1To10)

(***************************************************************************)
(* core/csp_problem.py                                                     *)
(***************************************************************************)
Variable(name, domain) == [name |-> name, domain |-> domain, value |-> None]

Constraint(name, scope, predicate, parameters) ==
    [name |-> name, scope |-> scope, predicate |-> predicate,
     parameters |-> parameters]

\* A CSPProblem: `order` is the insertion order of the `variables` dict.
CSPProblem(order, variables, constraints) ==
    [kind |-> "CSPProblem", order |-> order, variables |-> variables,
     constraints |-> constraints]

NoProblem(kind) ==
    [kind |-> kind, order |-> <<>>, variables |-> EmptyDict, constraints |-> <<>>]

(***************************************************************************)
(* modules/csp_translator.py                                               *)
(***************************************************************************)
\* ExpandItem with the box column taken from the quotient, not the remainder
ExpandItem_box_col(item) ==
    IF startswith(item, ROW) THEN
        LET row_idx == int(split1(item))
        IN List([col \in 1..9 |-> CellName(row_idx, col - 1)])
    ELSE IF startswith(item, COL) THEN
        LET col_idx == int(split1(item))
        IN List([row \in 1..9 |-> CellName(row - 1, col_idx)])
    ELSE IF startswith(item, BOX) THEN
        LET box_idx == int(split1(item))
            box_row == (box_idx \div 3) * 3
            box_col == (box_idx \div 3) * 3
        IN List([k \in 1..9 |->
                    CellName(box_row + ((k - 1) \div 3), box_col + ((k - 1) % 3))])
    ELSE IF startswith(item, CELL) THEN <<item>>
    ELSE <<>>

\* one iteration of the loop of _convert_scope_to_variables
ExpandItem(item) ==
    IF startswith(item, ROW) THEN
        LET row_idx == int(split1(item))
        IN List([col \in 1..9 |-> CellName(row_idx, col - 1)])
    ELSE IF startswith(item, COL) THEN
        LET col_idx == int(split1(item))
        IN List([row \in 1..9 |-> CellName(row - 1, col_idx)])
    ELSE IF startswith(item, BOX) THEN
        LET box_idx == int(split1(item))
            box_row == (box_idx \div 3) * 3
            box_col == (box_idx % 3) * 3
        IN List([k \in 1..9 |->
                    CellName(box_row + ((k - 1) \div 3), box_col + ((k - 1) % 3))])
    ELSE IF startswith(item, CELL) THEN <<item>>
    ELSE <<>>

\* the int() call of the iteration raises ValueError
ItemRaises(item) ==
    /\ startswith(item, ROW) \/ startswith(item, COL) \/ startswith(item, BOX)
    /\ ~IntParses(split1(item))

ScopeRaises(scope) == \E i \in 1..Len(scope) : ItemRaises(scope[i])

convert_scope_to_variables(scope) ==
    Concat([i \in 1..Len(scope) |-> ExpandItem(scope[i])])

\* the closures defined by the _add_*_constraint methods
Predicate(fn, variable_names) == [fn |-> fn, variable_names |-> variable_names]

\* values = [assignment.get(var) for var in variable_names if var in assignment]
PredicateValues(variable_names, assignment) ==
    LET present == SelectSeq(variable_names, LAMBDA var : var \in DOMAIN assignment)
    IN List([i \in 1..Len(present) |-> assignment[present[i]]])

\* Predicates a caller passes to CSPProblem.add_constraint itself:
\*   less_than_predicate   lambda a, p: a[variable_names[0]] < a[variable_names[1]]
\*   raising_predicate     a callable that raises on every call
\* predicate(assignment, params) raises an exception
PredicateRaises(predicate, assignment, params) ==
    \/ predicate.fn = "raising_predicate"
    \/ /\ predicate.fn = "less_than_predicate"
       /\ ~({predicate.variable_names[1], predicate.variable_names[2]}
                \subseteq DOMAIN assignment)

\* the predicates without their "not all variables assigned yet" branch
CallPredicate_eager(predicate, assignment, params) ==
    LET values == PredicateValues(predicate.variable_names, assignment)
    IN IF predicate.fn = "all_different_predicate" THEN
            Len(values) = Cardinality(ListSet(values))
       ELSE IF predicate.fn = "sum_predicate" THEN
            ListSum(values) = Get(params, "sum", 0)
       ELSE IF predicate.fn = "less_than_predicate" THEN
            assignment[predicate.variable_names[1]] < assignment[predicate.variable_names[2]]
       ELSE TRUE

\* predicate(assignment, params) when it does not raise
CallPredicate(predicate, assignment, params) ==
    LET values == PredicateValues(predicate.variable_names, assignment)
    IN IF predicate.fn = "all_different_predicate" THEN
            IF Len(values) < Len(predicate.variable_names) THEN TRUE
            ELSE Len(values) = Cardinality(ListSet(values))
       ELSE IF predicate.fn = "sum_predicate" THEN
            IF Len(values) < Len(predicate.variable_names) THEN TRUE
            ELSE ListSum(values) = Get(params, "sum", 0)
       ELSE IF predicate.fn = "less_than_predicate" THEN
            assignment[predicate.variable_names[1]] < assignment[predicate.variable_names[2]]
       ELSE TRUE

add_variables(st) ==
    LET rows == st.grid_size[1]
        cols == st.grid_size[2]
        added ==
            List([k \in 1..(rows * cols) |->
                    LET row == (k - 1) \div cols
                        col == (k - 1) % cols
                        var_name == CellName(row, col)
                    IN IF <<row, col>> \in DOMAIN st.filled_cells
                       THEN Variable(var_name, <<st.filled_cells[<<row, col>>]>>)
                       ELSE Variable(var_name, get_domain(st, row, col))])
        \* a later add_variable of the same name replaces the earlier one
        Last(name) ==
            CHOOSE k \in 1..Len(added) :
                added[k].name = name /\ \A j \in 1..Len(added) : added[j].name = name => j <= k
    IN [order |-> [k \in 1..Len(added) |-> added[k].name],
        variables |-> [name \in {added[k].name : k \in 1..Len(added)} |-> added[Last(name)]]]

\* the constraint one rule adds to a problem that already has `constraints`
\* a name that leaves out the number of constraints added so far
constraint_name_unnumbered(rule, constraints) ==
    ConstraintType[rule.constraint_type]

\* f"{rule.constraint_type.value}_{len(csp.constraints)}"
constraint_name_of(rule, constraints) ==
    ConstraintType[rule.constraint_type] \o <<"_">> \o str(Len(constraints))

RuleConstraints(constraints, rule) ==
    LET constraint_name == constraint_name_of(rule, constraints)
        variable_names == convert_scope_to_variables(rule.scope)
    IN IF rule.constraint_type = "ALL_DIFFERENT" THEN
            IF variable_names = <<>> THEN <<>>
            ELSE <<Constraint(constraint_name, variable_names,
                              Predicate("all_different_predicate", variable_names),
                              EmptyDict)>>
       ELSE IF rule.constraint_type = "SUM" THEN
            IF variable_names = <<>> THEN <<>>
            ELSE <<Constraint(constraint_name, variable_names,
                              Predicate("sum_predicate", variable_names),
                              [sum |-> Get(rule.parameters, "sum", 0)])>>
       ELSE IF rule.constraint_type = "ARITHMETIC" THEN
            IF variable_names = <<>> THEN <<>>
            ELSE <<Constraint(constraint_name, variable_names,
                              Predicate("arithmetic_predicate", variable_names),
                              rule.parameters)>>
       ELSE <<>>

\* a rule whose translation raises inside _add_constraints
RuleRaises(rule) ==
    /\ rule.constraint_type \in {"ALL_DIFFERENT", "SUM", "ARITHMETIC"}
    /\ ScopeRaises(rule.scope)

RECURSIVE add_constraints(_, _)
add_constraints(constraints, rs) ==
    IF Len(rs) = 0 THEN constraints
    ELSE add_constraints(constraints \o RuleConstraints(constraints, rs[1]), Tail(rs))

translate(rs, st) ==
    IF \E i \in 1..Len(rs) : RuleRaises(rs[i]) THEN NoProblem(None)
    ELSE LET added == add_variables(st)
         IN CSPProblem(added.order, added.variables, add_constraints(<<>>, rs))

(***************************************************************************)
(* core/csp_problem.py: the operations on a built problem                  *)
(***************************************************************************)
\* CSPProblem.add_constraint(name, scope, predicate, parameters)
add_constraint(p, name, scope, predicate, parameters) ==
    [p EXCEPT !.constraints = Append(@, Constraint(name, scope, predicate, parameters))]

\* all(self.variables[v].is_assigned() for v in constraint.scope): the
\* generator stops at the first unassigned variable and raises KeyError at a
\* name that is not a variable of the problem
all_assigned(p, assigned, scope) ==
    LET stops == {k \in 1..Len(scope) :
                     scope[k] \notin DOMAIN p.variables \/ scope[k] \notin DOMAIN assigned}
        first == CHOOSE k \in stops : \A j \in stops : k <= j
    IN IF stops = {} THEN "True"
       ELSE IF scope[first] \notin DOMAIN p.variables THEN "KeyError"
       ELSE "False"

\* what one iteration of the loop of is_consistent does with a constraint:
\* "skip" (not evaluated), "pass", "fail" (return False) or "KeyError"
ConstraintOutcome(p, assigned, c) ==
    LET all == all_assigned(p, assigned, c.scope)
    IN IF all = "KeyError" THEN "KeyError"
       ELSE IF all = "False" \/ c.predicate.fn = None THEN "skip"
       ELSE \* {v: self.variables[v].value for v in constraint.scope}
            LET values == Dict([v \in ListSet(c.scope) \cap DOMAIN assigned |-> assigned[v]])
            IN IF PredicateRaises(c.predicate, values, c.parameters) THEN "fail"
               ELSE IF CallPredicate(c.predicate, values, c.parameters) THEN "pass"
               ELSE "fail"

\* CSPProblem.is_consistent(variable_name, value), `values` being the
\* Variable.value fields that are not None when it is called.  The record
\* holds what it returns, the Variable.value fields at the call and with the
\* value tried, the constraints whose predicate it called and the
\* Variable.value fields it leaves behind.
is_consistent(p, values, variable_name, value) ==
    LET assigned == Dict([v \in DOMAIN values \cup {variable_name} |->
                            IF v = variable_name THEN value ELSE values[v]])
        \* get_constraints_for_variable(variable_name)
        involved == SelectSeq([i \in 1..Len(p.constraints) |-> i],
                              LAMBDA i : variable_name \in ListSet(p.constraints[i].scope))
        outcome == List([k \in 1..Len(involved) |->
                            ConstraintOutcome(p, assigned, p.constraints[involved[k]])])
        ends == {k \in 1..Len(involved) : outcome[k] \in {"fail", "KeyError"}}
        last == IF ends = {} THEN Len(involved)
                ELSE CHOOSE k \in ends : \A j \in ends : k <= j
    IN [kind |-> IF ends /= {} /\ outcome[last] = "KeyError" THEN "KeyError" ELSE "bool",
        value |-> (ends = {}),
        variable_name |-> variable_name,
        values |-> values,
        assigned |-> assigned,
        evaluated |-> {involved[k] : k \in {j \in 1..last : outcome[j] \in {"pass", "fail"}}},
        after |-> IF ends /= {} /\ outcome[last] = "KeyError" THEN assigned ELSE values]

NoCheck ==
    [kind |-> NotRun, value |-> FALSE, variable_name |-> <<>>, values |-> EmptyDict,
     assigned |-> EmptyDict,
     evaluated |-> {}, after |-> EmptyDict]

(***************************************************************************)
(* solvers/csp_solver.py                                                   *)
(***************************************************************************)
Min(a, b) == IF a <= b THEN a ELSE b

\* a sort that ignores reverse and always sorts ascending
sorted_ascending(items, keys, reverse) ==
    LET n == Len(items)
        Before(j, i) == keys[j] < keys[i] \/ (keys[j] = keys[i] /\ j < i)
        rank == List([i \in 1..n |-> Cardinality({j \in 1..n : Before(j, i)}) + 1])
    IN List([k \in 1..n |-> items[CHOOSE i \in 1..n : rank[i] = k]])

\* sorted(items, key=...) is stable; with reverse=True equal keys also keep
\* their original relative order
\* (keys[i] is the sort key of items[i])
sorted(items, keys, reverse) ==
    LET n == Len(items)
        Before(j, i) ==
            \/ IF reverse THEN keys[j] > keys[i] ELSE keys[j] < keys[i]
            \/ keys[j] = keys[i] /\ j < i
        rank == List([i \in 1..n |-> Cardinality({j \in 1..n : Before(j, i)}) + 1])
    IN List([k \in 1..n |-> items[CHOOSE i \in 1..n : rank[i] = k]])

\* size of the Cartesian product of the first k domains, capped at cap + 1
RECURSIVE SearchSpaceUpTo(_, _, _)
SearchSpaceUpTo(sizes, k, cap) ==
    IF k = 0 THEN 1
    ELSE LET rest == SearchSpaceUpTo(sizes, k - 1, cap)
         IN Min(sizes[k] * rest, cap + 1)

\* domains of size one do not change the product
SearchSpace(sizes, cap) ==
    LET choice == SelectSeq(sizes, LAMBDA n : n /= 1)
    IN IF Len(choice) > cap THEN cap + 1
       ELSE SearchSpaceUpTo(choice, Len(choice), cap)

\* Result of CSPSolver._build_constraint_problem: the python-constraint
\* Problem.  Each registered function is `wrapped`, which closes over pred
\* and params (arguments of make_constraint) and over the loop variable
\* `constraint` of the enclosing function, whose value when the search runs
\* is the last element of sorted_constraints.
build_constraint_problem(p) ==
    LET items == List([i \in 1..Len(p.order) |-> p.variables[p.order[i]]])
        sorted_vars ==
            sorted(items, List([i \in 1..Len(items) |-> Len(items[i].domain)]), FALSE)
        sorted_constraints ==
            sorted(p.constraints,
                   List([i \in 1..Len(p.constraints) |-> Len(p.constraints[i].scope)]), TRUE)
        registered == SelectSeq(sorted_constraints, LAMBDA c : c.predicate.fn /= None)
    IN IF \E i \in 1..Len(items) : Len(items[i].domain) = 0
       THEN [kind |-> None, variables |-> <<>>, constraints |-> <<>>, constraint |-> <<>>]
       ELSE [kind |-> "Problem",
             variables |-> [i \in 1..Len(sorted_vars) |->
                               [name |-> sorted_vars[i].name,
                                domain |-> sorted_vars[i].domain]],
             constraints |-> [i \in 1..Len(registered) |->
                               [pred |-> registered[i].predicate,
                                params |-> registered[i].parameters,
                                scope |-> registered[i].scope]],
             constraint |-> IF Len(sorted_constraints) = 0 THEN <<>>
                            ELSE sorted_constraints[Len(sorted_constraints)].scope]

\* {var: val for var, val in zip(scope, args)}
ZipDict(scope, args) ==
    LET n == Min(Len(scope), Len(args))
        Last(var) == CHOOSE i \in 1..n :
                        scope[i] = var /\ \A j \in 1..n : scope[j] = var => j <= i
    IN Dict([var \in {scope[i] : i \in 1..n} |-> args[Last(var)]])

\* wrapped(*args) of make_constraint
wrapped(pred, params, constraint_scope, args) ==
    LET assignment == ZipDict(constraint_scope, args)
    IN IF PredicateRaises(pred, assignment, params) THEN FALSE
       ELSE CallPredicate(pred, assignment, params)

ProblemNames(prob) == {prob.variables[i].name : i \in 1..Len(prob.variables)}

\* the domain registered for each variable name
ProblemDomains(prob) ==
    Dict([name \in ProblemNames(prob) |->
            prob.variables[CHOOSE i \in 1..Len(prob.variables) :
                              prob.variables[i].name = name].domain])

\* all complete assignments of domain values (the search space)
CompleteAssignments(dom) ==
    LET names == DOMAIN dom
        free == {n \in names : Len(dom[n]) > 1}
        vals == UNION {ListSet(dom[n]) : n \in free}
        choices == {f \in [free -> vals] : \A n \in free : f[n] \in ListSet(dom[n])}
    IN {Dict([n \in names |-> IF n \in free THEN f[n] ELSE dom[n][1]]) : f \in choices}

\* python-constraint calls a registered function only when every variable
\* of its scope is assigned, with the values in scope order
ProblemAccepts(prob, a) ==
    \A i \in 1..Len(prob.constraints) :
        LET c == prob.constraints[i]
        IN wrapped(c.pred, c.params, prob.constraint,
                   List([k \in 1..Len(c.scope) |-> a[c.scope[k]]]))

\* Problem.getSolution() raises KeyError when a scope names an unknown variable
getSolutionRaises(prob) ==
    \E i \in 1..Len(prob.constraints) :
        \E k \in 1..Len(prob.constraints[i].scope) :
            prob.constraints[i].scope[k] \notin ProblemNames(prob)

\* the assignments Problem.getSolution() may return
getSolutions(prob) ==
    {a \in CompleteAssignments(ProblemDomains(prob)) : ProblemAccepts(prob, a)}

ProblemSearchSpace(prob) ==
    SearchSpace([i \in 1..Len(prob.variables) |-> Len(prob.variables[i].domain)],
                MaxSearchSpace)

NoneResult == [kind |-> None, value |-> EmptyDict]
NotRunResult == [kind |-> NotRun, value |-> EmptyDict]
\* a returned assignment that leaves one variable out
DictResult_partial(a) ==
    [kind |-> "dict",
     value |-> [n \in DOMAIN a \ {CHOOSE m \in DOMAIN a : TRUE} |-> a[n]]]

DictResult(a) == [kind |-> "dict", value |-> a]

(***************************************************************************)
(* solvers/ortools_solver.py                                               *)
(***************************************************************************)
UpperLetters == <<"A", "B", "C", "D", "E", "F", "G", "H", "I", "J", "K", "L", "M",
                  "N", "O", "P", "Q", "R", "S", "T", "U", "V", "W", "X", "Y", "Z">>
LowerLetters == <<"a", "b", "c", "d", "e", "f", "g", "h", "i", "j", "k", "l", "m",
                  "n", "o", "p", "q", "r", "s", "t", "u", "v", "w", "x", "y", "z">>

\* str.lower
lower(s) ==
    [i \in 1..Len(s) |->
        IF \E k \in 1..26 : UpperLetters[k] = s[i]
        THEN LowerLetters[CHOOSE k \in 1..26 : UpperLetters[k] = s[i]]
        ELSE s[i]]

ListMin(s) == CHOOSE v \in ListSet(s) : \A w \in ListSet(s) : v <= w
ListMax(s) == CHOOSE v \in ListSet(s) : \A w \in ListSet(s) : v >= w

ALLDIFF == <<"a", "l", "l", "d", "i", "f", "f">>

\* itertools.product(*domains) restricted to the tuples the predicate accepts
generate_allowed_assignments(constraint, p) ==
    LET n == Len(constraint.scope)
        vals == UNION {ListSet(p.variables[constraint.scope[k]].domain) : k \in 1..n}
        product == {t \in [1..n -> vals] :
                       \A k \in 1..n : t[k] \in ListSet(p.variables[constraint.scope[k]].domain)}
    IN {t \in product :
           LET assignment_dict == ZipDict(constraint.scope, t)
           IN /\ ~PredicateRaises(constraint.predicate, assignment_dict,
                                  constraint.parameters)
              /\ CallPredicate(constraint.predicate, assignment_dict,
                               constraint.parameters)}

\* the decision variable of model.NewIntVar(min(domain), max(domain), name)
NewIntVar(domain) == [lb |-> ListMin(domain), ub |-> ListMax(domain)]

\* what one constraint of the CSPProblem adds to the CP-SAT model
ModelConstraint(constraint, p) ==
    LET constraint_name == lower(constraint.name)
    IN IF constraint.predicate.fn = None THEN <<>>
       ELSE IF \E k \in 1..Len(constraint.scope) :
                   constraint.scope[k] \notin DOMAIN p.variables THEN <<>>
       ELSE IF Contains(constraint_name, ConstraintType.ALL_DIFFERENT)
               \/ Contains(constraint_name, ALLDIFF)
            THEN <<[native |-> "AddAllDifferent", scope |-> constraint.scope,
                    target |-> 0, allowed |-> {}]>>
       ELSE IF Contains(constraint_name, ConstraintType.SUM)
            THEN <<[native |-> "Add", scope |-> constraint.scope,
                    target |-> Get(constraint.parameters, "sum", 0), allowed |-> {}]>>
       ELSE IF Len(constraint.scope) <= 4
            THEN LET allowed == generate_allowed_assignments(constraint, p)
                 IN IF allowed /= {}
                    THEN <<[native |-> "AddAllowedAssignments",
                            scope |-> constraint.scope, target |-> 0,
                            allowed |-> allowed]>>
                    ELSE <<>>
       ELSE <<>>

\* Result of ORToolsSolver._build_ortools_model: the CP-SAT model and var_map
build_ortools_model(p) ==
    IF \E i \in 1..Len(p.order) : Len(p.variables[p.order[i]].domain) = 0
    THEN [kind |-> None, var_map |-> EmptyDict, constraints |-> <<>>]
    ELSE [kind |-> "CpModel",
          var_map |-> [name \in DOMAIN p.variables |-> NewIntVar(p.variables[name].domain)],
          constraints |-> Concat([i \in 1..Len(p.constraints) |->
                                     ModelConstraint(p.constraints[i], p)])]

\* the native propagators of CP-SAT
ModelAccepts(model, a) ==
    \A i \in 1..Len(model.constraints) :
        LET c == model.constraints[i]
            values == List([k \in 1..Len(c.scope) |-> a[c.scope[k]]])
        IN IF c.native = "AddAllDifferent"
           THEN \A j, k \in 1..Len(values) : j /= k => values[j] /= values[k]
           ELSE IF c.native = "Add" THEN ListSum(values) = c.target
           ELSE values \in c.allowed

ModelSearchSpace(model, order) ==
    SearchSpace([i \in 1..Len(order) |->
                    model.var_map[order[i]].ub - model.var_map[order[i]].lb + 1],
                MaxSearchSpace)

\* the assignments CpSolver.Solve may report as OPTIMAL or FEASIBLE
ModelSolutions(model) ==
    LET names == DOMAIN model.var_map
        free == {n \in names : model.var_map[n].lb < model.var_map[n].ub}
        vals == UNION {model.var_map[n].lb..model.var_map[n].ub : n \in free}
        choices == {f \in [free -> vals] :
                       \A n \in free : f[n] \in model.var_map[n].lb..model.var_map[n].ub}
    IN {a \in {Dict([n \in names |-> IF n \in free THEN f[n] ELSE model.var_map[n].lb]) :
                  f \in choices} : ModelAccepts(model, a)}

(***************************************************************************)
(* solvers/solver_factory.py                                               *)
(***************************************************************************)
Solver(kind, timeout) == [kind |-> kind, timeout |-> timeout]

Raised(exception) == [kind |-> exception, timeout |-> 0]

\* ORToolsSolver(**kwargs)
ORToolsSolverInit(kw, lib) ==
    IF ~(DOMAIN kw \subseteq {"timeout", "num_workers"}) THEN Raised("TypeError")
    ELSE IF ~lib THEN Raised("ImportError")
    ELSE Solver("ORToolsSolver", Get(kw, "timeout", 60))

\* CSPSolver(**kwargs)
CSPSolverInit(kw, lib) ==
    IF ~(DOMAIN kw \subseteq {"timeout", "heuristic"}) THEN Raised("TypeError")
    ELSE IF ~lib THEN Raised("ImportError")
    ELSE Solver("CSPSolver", Get(kw, "timeout", 60))

\* the name the `backend` variable holds after the "auto" and "ortools" blocks
BackendAfterFallback(b, kw, olib) ==
    IF b \in {"auto", "ortools"} /\ ORToolsSolverInit(kw, olib).kind = "ImportError"
    THEN "constraint"
    ELSE b

\* create_solver that treats every unknown name as "constraint"
create_solver_default(b, kw, olib, clib) ==
    IF b \in {"auto", "ortools"} /\ ORToolsSolverInit(kw, olib).kind /= "ImportError"
    THEN ORToolsSolverInit(kw, olib)
    ELSE CSPSolverInit(kw, clib)

create_solver(b, kw, olib, clib) ==
    IF b \in {"auto", "ortools"} /\ ORToolsSolverInit(kw, olib).kind /= "ImportError"
    THEN ORToolsSolverInit(kw, olib)
    ELSE IF BackendAfterFallback(b, kw, olib) = "constraint"
    THEN CSPSolverInit(kw, clib)
    ELSE Raised("ValueError")

(***************************************************************************)
(* Inputs: the rule sets, puzzle states and factory calls the model draws  *)
(* its initial states from.                                                *)
(***************************************************************************)
Tok(prefix, n) == prefix \o str(n)

AllDifferent(scope) == ConstraintRule("ALL_DIFFERENT", scope, EmptyDict)

\* the rules the rule parser emits for Sudoku: one rule per family
CanonicalRules ==
    <<AllDifferent([i \in 1..9 |-> Tok(ROW, i - 1)]),
      AllDifferent([i \in 1..9 |-> Tok(COL, i - 1)]),
      AllDifferent([i \in 1..9 |-> Tok(BOX, i - 1)])>>

\* one rule per row, per column and per box
UnitRules ==
    [i \in 1..27 |->
        IF i <= 9 THEN AllDifferent(<<Tok(ROW, i - 1)>>)
        ELSE IF i <= 18 THEN AllDifferent(<<Tok(COL, i - 10)>>)
        ELSE AllDifferent(<<Tok(BOX, i - 19)>>)]

CorePool ==
    {AllDifferent(<<Tok(ROW, 0)>>),
     AllDifferent(<<Tok(COL, 0)>>),
     AllDifferent(<<CellName(0, 0), CellName(0, 1)>>),
     ConstraintRule("SUM", <<CellName(0, 0), CellName(0, 1)>>, [sum |-> 3]),
     AllDifferent(<<<<"f", "o", "o">>>>)}

ExtraPool ==
    {AllDifferent(<<ROW \o <<"x">>>>),
     ConstraintRule("CUSTOM", <<ROW \o <<"x">>>>, EmptyDict),
     ConstraintRule("ADJACENCY", <<Tok(ROW, 0)>>, EmptyDict),
     ConstraintRule("ARITHMETIC", <<CellName(0, 1)>>, EmptyDict),
     ConstraintRule("SUM", <<BOX>>, EmptyDict),
     AllDifferent(<<Tok(ROW, 9)>>),
     AllDifferent(<<CellName(9, 9)>>),
     AllDifferent(<<Tok(BOX, 4), <<"f", "o", "o">>>>),
     AllDifferent(<<Tok(ROW, 0), CellName(0, 0)>>),
     AllDifferent(<<Tok(BOX, 8), Tok(COL, 10)>>),
     AllDifferent(<<>>)}

\* rule lists in which a rule that adds no constraint stands between two
\* rules that add one
SkipLists ==
    {<<AllDifferent(<<Tok(ROW, 0)>>),
       AllDifferent(<<<<"f", "o", "o">>>>),
       AllDifferent(<<Tok(COL, 0)>>)>>,
     <<AllDifferent(<<CellName(0, 0), CellName(0, 1)>>),
       ConstraintRule("CUSTOM", <<Tok(ROW, 0)>>, EmptyDict),
       ConstraintRule("SUM", <<CellName(0, 0), CellName(0, 1)>>, [sum |-> 3]),
       AllDifferent(<<>>),
       AllDifferent(<<Tok(ROW, 0)>>)>>}

RuleLists ==
    UNION {[1..n -> CorePool] : n \in 0..MaxRules}
        \cup {<<r>> : r \in ExtraPool}
        \cup {CanonicalRules, UnitRules}
        \cup SkipLists

\* a valid, completely filled Sudoku grid
SolvedValue(r, c) == ((3 * (r % 3) + (r \div 3) + c) % 9) + 1

Sudoku == <<9, 9>>

SolvedGrid == [cell \in GridCells(Sudoku) |-> SolvedValue(cell[1], cell[2])]

Without(f, cells) == [cell \in DOMAIN f \ cells |-> f[cell]]

With(f, cell, v) == [x \in DOMAIN f \cup {cell} |-> IF x = cell THEN v ELSE f[x]]

HoleSets == {{<<0, 1>>}, {<<0, 0>>, <<0, 1>>}}

StateCases ==
    {PuzzleState(Sudoku, EmptyDict, EmptyDict),
     PuzzleState(Sudoku, SolvedGrid, EmptyDict),
     PuzzleState(Sudoku, With(SolvedGrid, <<0, 1>>, SolvedValue(0, 0)), EmptyDict),
     PuzzleState(Sudoku, With(EmptyDict, <<0, 0>>, 5), EmptyDict),
     PuzzleState(<<1, 2>>, With(EmptyDict, <<0, 0>>, 5), EmptyDict),
     PuzzleState(<<2, 3>>, With(EmptyDict, <<0, 0>>, 5),
                 With(With(EmptyDict, <<0, 0>>, <<1, 2>>), <<0, 1>>, <<1, 2>>))}
    \cup {PuzzleState(Sudoku, Without(SolvedGrid, holes), EmptyDict) : holes \in HoleSets}
    \cup {PuzzleState(Sudoku, Without(SolvedGrid, holes), [cell \in holes |-> d]) :
             holes \in HoleSets, d \in {<<1, 2>>, <<1, 3>>}}

Backends == {"auto", "ortools", "constraint", "generic", "specialized"}

KwargsCases ==
    {EmptyDict, [timeout |-> 0], [timeout |-> 60], [num_workers |-> 2],
     [heuristic |-> "MRV"]}

\* the constraints a caller adds itself, as test_csp_timeout.py does
CustomConstraint(suffix, scope, fn) ==
    Constraint(ConstraintType.CUSTOM \o <<"_">> \o suffix, scope,
               Predicate(fn, IF fn = None THEN <<>> ELSE scope), EmptyDict)

CustomPool ==
    {CustomConstraint(<<"l", "t">>, <<CellName(0, 0), CellName(0, 1)>>, "less_than_predicate"),
     CustomConstraint(<<"g", "t">>, <<CellName(0, 1), CellName(0, 0)>>, "less_than_predicate"),
     CustomConstraint(<<"r", "a", "i", "s", "e">>, <<CellName(0, 0), CellName(0, 1)>>,
                      "raising_predicate"),
     CustomConstraint(<<"n", "o", "n", "e">>, <<CellName(0, 0), CellName(0, 1)>>, None)}

CustomLists ==
    {<<>>} \cup {<<c>> : c \in CustomPool}
        \cup {<<c, d>> : c, d \in {x \in CustomPool : x.predicate.fn = "less_than_predicate"}}
        \cup {<<CustomConstraint(<<"l", "t">>, <<CellName(0, 0), CellName(0, 1)>>,
                                 "less_than_predicate"),
                CustomConstraint(<<"n", "o", "n", "e">>, <<CellName(0, 0), CellName(0, 1)>>,
                                 None),
                CustomConstraint(<<"g", "t">>, <<CellName(0, 1), CellName(0, 0)>>,
                                 "less_than_predicate")>>}

\* the rule lists and states the caller's constraints are added to
CustomRuleLists ==
    {<<>>,
     <<ConstraintRule("ARITHMETIC", <<CellName(0, 1)>>, EmptyDict)>>,
     <<AllDifferent(<<CellName(0, 0), CellName(0, 1)>>)>>}

CustomStates ==
    {PuzzleState(<<1, 2>>, With(EmptyDict, <<0, 0>>, 5), With(EmptyDict, <<0, 1>>, d)) :
        d \in {<<3, 7>>, <<3, 4>>}}
    \cup {PuzzleState(<<1, 2>>, With(EmptyDict, <<0, 1>>, 5),
                      With(EmptyDict, <<0, 0>>, <<3, 7>>))}

\* a call on the solver: solve(csp) or solve_with_timeout(csp, timeout)
Call(op, timeout) == [op |-> op, timeout |-> timeout]

\* one call of solve, as solve_puzzle makes it (the timeout field is unused)
PlainSolve == <<Call("solve", 0)>>

\* several calls on the same solver and the same problem, the last one a
\* plain solve
CallSequences ==
    {<<Call("solve", 0), Call("solve", 0)>>,
     <<Call("solve_with_timeout", 0), Call("solve", 0)>>,
     <<Call("solve_with_timeout", 0), Call("solve_with_timeout", 5), Call("solve", 0)>>}

\* the problems the call sequences are run on: one with several solutions
\* and a small search space, one whose search does not end
CallRuleLists == {<<>>, <<AllDifferent(<<CellName(0, 0), CellName(0, 1)>>)>>}

CallStates ==
    {PuzzleState(<<1, 2>>, EmptyDict,
                 With(With(EmptyDict, <<0, 0>>, <<1, 2>>), <<0, 1>>, <<1, 2>>)),
     PuzzleState(Sudoku, EmptyDict, EmptyDict)}

Input(b, kw, olib, clib, rs, st, cs, cl) ==
    [backend |-> b, kwargs |-> kw, ortoolsLib |-> olib, constraintLib |-> clib,
     rules |-> rs, state |-> st, custom |-> cs, calls |-> cl]

InputCases ==
    {Input(call[1], call[2], TRUE, TRUE, rs, st, <<>>, PlainSolve) :
        call \in {<<"constraint", [timeout |-> 0]>>, <<"constraint", [timeout |-> 60]>>,
                  <<"ortools", [timeout |-> 60]>>},
        rs \in RuleLists, st \in StateCases}
    \cup {Input(b, kw, lib[1], lib[2], <<>>,
                PuzzleState(<<1, 2>>, With(EmptyDict, <<0, 0>>, 5), EmptyDict), <<>>,
                PlainSolve) :
             b \in Backends, kw \in KwargsCases, lib \in BOOLEAN \X BOOLEAN}
    \cup {Input(b, [timeout |-> 60], TRUE, TRUE, rs, st, cs, PlainSolve) :
             b \in {"constraint", "ortools"}, rs \in CustomRuleLists,
             st \in CustomStates, cs \in CustomLists \ {<<>>}}
    \cup {Input(b, [timeout |-> 60], TRUE, TRUE, rs, st, <<>>, cl) :
             b \in {"constraint", "ortools"}, rs \in CallRuleLists,
             st \in CallStates, cl \in CallSequences}

\* the calls of is_consistent: the values already assigned, the variable and
\* the value tried
ConsistencyCalls ==
    {<<EmptyDict, CellName(0, 0), 5>>,
     <<With(EmptyDict, CellName(0, 0), 5), CellName(0, 1), 5>>,
     <<With(EmptyDict, CellName(0, 0), 5), CellName(0, 1), 7>>,
     <<With(EmptyDict, CellName(0, 1), 7), CellName(0, 0), 5>>}

(***************************************************************************)
(* modules/puzzle_solver.py: the result dict of solve_puzzle               *)
(***************************************************************************)
NewResult == [success |-> FALSE, solution |-> NoneResult, steps |-> <<>>, errors |-> <<>>]

\* result["errors"].append(error); return result
Fail(r, error) == [r EXCEPT !.errors = Append(@, error)]

\* result["steps"][step] = {...}
Step(r, step) == [r EXCEPT !.steps = Append(@, step)]

\* the outcomes of self.rule_module.infer_rules: a rule set, None, an exception
InferenceOutcomes == {"rules", None, "Exception"}

after_rule_inference(r, outcome) ==
    IF outcome = None THEN Fail(r, "Rule inference failed")
    ELSE IF outcome = "Exception" THEN Fail(r, "Rule inference error")
    ELSE Step(r, "rule_inference")

\* the outcomes of step 2 for the arguments extract_state and ground_truth_state
ExtractionOutcomes(extract_state, ground_truth_given) ==
    IF extract_state /\ ~ground_truth_given THEN {"state", None, "Exception"}
    ELSE IF ground_truth_given THEN {"state", "Exception"}
    ELSE {"no state"}

after_state_extraction(r, outcome) ==
    IF outcome = "no state" THEN Fail(r, "No state provided and extract_state=False")
    ELSE IF outcome = None THEN Fail(r, "State extraction failed")
    ELSE IF outcome = "Exception" THEN Fail(r, "State extraction error")
    ELSE Step(r, "state_extraction")

\* step 3 that reports a failed translation as the solver finding nothing
after_translation_as_no_solution(r, p) ==
    IF p.kind = None THEN Fail(r, "CSP solver found no solution")
    ELSE Step(r, "csp_translation")

after_translation(r, p) ==
    IF p.kind = None THEN Fail(r, "CSP translation failed")
    ELSE Step(r, "csp_translation")

after_solving(r, solution) ==
    IF solution.kind = None THEN Fail(r, "CSP solver found no solution")
    ELSE [Step(r, "csp_solving") EXCEPT !.solution = solution, !.success = TRUE]

\* the step solve_puzzle goes to: it returns at the first error
NextStage(r, following) == IF Len(r.errors) > 0 THEN "done" ELSE following

(***************************************************************************)
(* The state machine.                                                      *)
(***************************************************************************)
NoPythonProblem ==
    [kind |-> NotRun, variables |-> <<>>, constraints |-> <<>>, constraint |-> <<>>]

\* the local original_timeout of solve_with_timeout, while it runs
NoTimeoutCall == [active |-> FALSE, original_timeout |-> 0]

TimeoutCall(original_timeout) == [active |-> TRUE, original_timeout |-> original_timeout]

\* a solve_worker thread, the problem it searches and the containers it
\* writes
Worker(pc, prob, solution, error) ==
    [pc |-> pc, problem |-> prob, solution_container |-> solution,
     error_container |-> error]

Init ==
    /\ \E in \in InputCases :
        /\ backend = in.backend
        /\ kwargs = in.kwargs
        /\ ortoolsLib = in.ortoolsLib
        /\ constraintLib = in.constraintLib
        /\ rules = in.rules
        /\ state = in.state
        /\ custom = [pending |-> in.custom, added |-> 0]
        /\ calls = in.calls
    /\ solver = Solver(NotRun, 0)
    /\ csp = NoProblem(NotRun)
    /\ mainPc = "idle"
    /\ problem = NoPythonProblem
    /\ workerPc = "none"
    /\ deadline = FALSE
    /\ solution_container = NoneResult
    /\ error_container = None
    /\ timedOut = FALSE
    /\ result = NotRunResult
    /\ consistency = NoCheck
    /\ stage = "rule_inference"
    /\ puzzle_result = NewResult
    /\ callIndex = 1
    /\ swt = NoTimeoutCall
    /\ worker_solution = NotRunResult
    /\ abandoned = <<>>

\* PuzzleSolver.__init__: SolverFactory.create_solver(backend, **kwargs)
CreateSolver ==
    /\ solver.kind = NotRun
    /\ solver' = create_solver(backend, kwargs, ortoolsLib, constraintLib)
    /\ UNCHANGED <<custom, consistency, stage, puzzle_result>>
    /\ UNCHANGED <<backend, kwargs, ortoolsLib, constraintLib, rules, state, csp,
                   mainPc, problem, workerPc, deadline, solution_container,
                   error_container, timedOut, result>>
    /\ UNCHANGED callVars

\* solve_puzzle, step 1: self.rule_module.infer_rules(...)
InferRules ==
    /\ solver.kind \in {"CSPSolver", "ORToolsSolver"}
    /\ stage = "rule_inference"
    /\ \E outcome \in InferenceOutcomes :
        puzzle_result' = after_rule_inference(puzzle_result, outcome)
    /\ stage' = NextStage(puzzle_result', "state_extraction")
    /\ UNCHANGED <<backend, kwargs, ortoolsLib, constraintLib, solver, rules, state,
                   csp, mainPc, problem, workerPc, deadline, solution_container,
                   error_container, timedOut, result, custom, consistency>>
    /\ UNCHANGED callVars

\* solve_puzzle, step 2: the state comes from the VLM or from the ground truth
ExtractState ==
    /\ stage = "state_extraction"
    /\ \E extract_state, ground_truth_given \in BOOLEAN :
        \E outcome \in ExtractionOutcomes(extract_state, ground_truth_given) :
            puzzle_result' = after_state_extraction(puzzle_result, outcome)
    /\ stage' = NextStage(puzzle_result', "csp_translation")
    /\ UNCHANGED <<backend, kwargs, ortoolsLib, constraintLib, solver, rules, state,
                   csp, mainPc, problem, workerPc, deadline, solution_container,
                   error_container, timedOut, result, custom, consistency>>
    /\ UNCHANGED callVars

\* solve_puzzle, step 3: CSPTranslator.translate(rules, state)
Translate ==
    /\ solver.kind \in {"CSPSolver", "ORToolsSolver"}
    /\ stage = "csp_translation"
    /\ csp.kind = NotRun
    /\ csp' = translate(rules, state)
    /\ puzzle_result' = after_translation(puzzle_result, csp')
    /\ stage' = NextStage(puzzle_result', "csp_solving")
    /\ UNCHANGED <<custom, consistency>>
    /\ UNCHANGED <<backend, kwargs, ortoolsLib, constraintLib, solver, rules, state,
                   mainPc, problem, workerPc, deadline, solution_container,
                   error_container, timedOut, result>>
    /\ UNCHANGED callVars

\* a solve_with_timeout without the finally clause: the timeout of the
\* call stays
restored_timeout_kept(original_timeout, timeout) == timeout

\* the finally clause of solve_with_timeout: self.timeout = original_timeout
restored_timeout(original_timeout, timeout) == original_timeout

\* a solve that sorts the constraint list of the CSPProblem itself
SolveStart_sorting_in_place ==
    /\ solver.kind = "CSPSolver"
    /\ csp.kind = "CSPProblem"
    /\ mainPc = "idle"
    /\ LET call == calls[callIndex]
           timeout == IF call.op = "solve_with_timeout" THEN call.timeout
                      ELSE solver.timeout
       IN /\ problem' = build_constraint_problem(csp)
          /\ IF problem'.kind = None
             THEN \* solve returns None at once; solve_with_timeout has set
                  \* self.timeout and sets it again in its finally clause
                  /\ mainPc' = "returned"
                  /\ result' = NoneResult
                  /\ solver' = [solver EXCEPT
                                  !.timeout = restored_timeout(solver.timeout, timeout)]
                  /\ UNCHANGED <<workerPc, deadline, swt, solution_container,
                                 error_container, worker_solution, abandoned>>
             ELSE /\ mainPc' = "joining"
                  /\ solver' = [solver EXCEPT !.timeout = timeout]
                  /\ swt' = IF call.op = "solve_with_timeout"
                            THEN TimeoutCall(solver.timeout) ELSE NoTimeoutCall
                  \* the worker of the call before keeps its own containers
                  /\ abandoned' = IF workerPc \in {"running", "stored"}
                                  THEN Append(abandoned,
                                              Worker(workerPc, problem, solution_container,
                                                     error_container))
                                  ELSE abandoned
                  /\ solution_container' = NoneResult
                  /\ error_container' = None
                  /\ worker_solution' = NotRunResult
                  /\ workerPc' = "running"
                  /\ deadline' = (timeout = 0)
                  /\ UNCHANGED result
    /\ timedOut' = FALSE
    /\ UNCHANGED <<custom, consistency, stage, puzzle_result, calls, callIndex>>
    /\ csp' = [csp EXCEPT
                    !.constraints =
                        sorted(csp.constraints,
                               List([i \in 1..Len(csp.constraints) |->
                                        Len(csp.constraints[i].scope)]), TRUE)]
    /\ UNCHANGED <<backend, kwargs, ortoolsLib, constraintLib, rules, state>>

\* CSPSolver.solve, or solve_with_timeout around it, up to
\* solver_thread.start() and the entry into join
SolveStart ==
    /\ solver.kind = "CSPSolver"
    /\ csp.kind = "CSPProblem"
    /\ mainPc = "idle"
    /\ LET call == calls[callIndex]
           timeout == IF call.op = "solve_with_timeout" THEN call.timeout
                      ELSE solver.timeout
       IN /\ problem' = build_constraint_problem(csp)
          /\ IF problem'.kind = None
             THEN \* solve returns None at once; solve_with_timeout has set
                  \* self.timeout and sets it again in its finally clause
                  /\ mainPc' = "returned"
                  /\ result' = NoneResult
                  /\ solver' = [solver EXCEPT
                                  !.timeout = restored_timeout(solver.timeout, timeout)]
                  /\ UNCHANGED <<workerPc, deadline, swt, solution_container,
                                 error_container, worker_solution, abandoned>>
             ELSE /\ mainPc' = "joining"
                  /\ solver' = [solver EXCEPT !.timeout = timeout]
                  /\ swt' = IF call.op = "solve_with_timeout"
                            THEN TimeoutCall(solver.timeout) ELSE NoTimeoutCall
                  \* the worker of the call before keeps its own containers
                  /\ abandoned' = IF workerPc \in {"running", "stored"}
                                  THEN Append(abandoned,
                                              Worker(workerPc, problem, solution_container,
                                                     error_container))
                                  ELSE abandoned
                  /\ solution_container' = NoneResult
                  /\ error_container' = None
                  /\ worker_solution' = NotRunResult
                  /\ workerPc' = "running"
                  /\ deadline' = (timeout = 0)
                  /\ UNCHANGED result
    /\ timedOut' = FALSE
    /\ UNCHANGED <<custom, consistency, stage, puzzle_result, calls, callIndex>>
    /\ UNCHANGED <<backend, kwargs, ortoolsLib, constraintLib, rules, state, csp>>

\* what solve_worker may store: the exception problem.getSolution() raised,
\* or the value it returned
WorkerOutcomes(prob) ==
    IF getSolutionRaises(prob)
    THEN {[error |-> "KeyError", solution |-> NotRunResult]}
    ELSE IF getSolutions(prob) = {} \/ Len(prob.variables) = 0
    THEN {[error |-> None, solution |-> NoneResult]}
    ELSE {[error |-> None, solution |-> DictResult(a)] : a \in getSolutions(prob)}

\* containers shared by all calls: a worker writes those of the latest call
worker_container_shared(own, latest) == latest

\* solution_container and error_container are locals of the solve call that
\* defined solve_worker: a worker writes the containers of its own call
worker_container(own, latest) == own

\* solve_worker: problem.getSolution() runs to its end and its outcome is
\* stored; the thread has not ended yet
WorkerFinish ==
    /\ workerPc = "running"
    /\ ProblemSearchSpace(problem) <= MaxSearchSpace
    /\ workerPc' = "stored"
    /\ \E out \in WorkerOutcomes(problem) :
        /\ worker_solution' = out.solution
        /\ IF out.error /= None
           THEN error_container' = out.error /\ UNCHANGED solution_container
           ELSE solution_container' = out.solution /\ UNCHANGED error_container
    /\ UNCHANGED <<custom, consistency, stage, puzzle_result, calls, callIndex, swt,
                   abandoned>>
    /\ UNCHANGED <<backend, kwargs, ortoolsLib, constraintLib, solver, rules, state,
                   csp, mainPc, problem, deadline, timedOut, result>>

\* the thread of solve_worker ends: is_alive() is False from now on
WorkerExit ==
    /\ workerPc = "stored"
    /\ workerPc' = "finished"
    /\ UNCHANGED <<custom, consistency, stage, puzzle_result>>
    /\ UNCHANGED callVars
    /\ UNCHANGED <<backend, kwargs, ortoolsLib, constraintLib, solver, rules, state,
                   csp, mainPc, problem, deadline, solution_container,
                   error_container, timedOut, result>>

\* the worker of an earlier call, still running, comes to the end of its search
AbandonedWorkerFinish ==
    /\ \E i \in 1..Len(abandoned) :
        /\ abandoned[i].pc = "running"
        /\ ProblemSearchSpace(abandoned[i].problem) <= MaxSearchSpace
        /\ \E out \in WorkerOutcomes(abandoned[i].problem) :
            IF worker_container("own", "latest") = "own"
            THEN /\ abandoned' =
                        [abandoned EXCEPT
                            ![i] = Worker("stored", abandoned[i].problem,
                                          IF out.error /= None
                                          THEN abandoned[i].solution_container
                                          ELSE out.solution,
                                          IF out.error /= None THEN out.error
                                          ELSE abandoned[i].error_container)]
                 /\ UNCHANGED <<solution_container, error_container>>
            ELSE /\ abandoned' = [abandoned EXCEPT ![i].pc = "stored"]
                 /\ IF out.error /= None
                    THEN error_container' = out.error /\ UNCHANGED solution_container
                    ELSE solution_container' = out.solution /\ UNCHANGED error_container
    /\ UNCHANGED <<custom, consistency, stage, puzzle_result, calls, callIndex, swt,
                   worker_solution>>
    /\ UNCHANGED <<backend, kwargs, ortoolsLib, constraintLib, solver, rules, state,
                   csp, mainPc, problem, workerPc, deadline, timedOut, result>>

\* the thread of the worker of an earlier call ends
AbandonedWorkerExit ==
    /\ \E i \in 1..Len(abandoned) :
        /\ abandoned[i].pc = "stored"
        /\ abandoned' = [abandoned EXCEPT ![i].pc = "finished"]
    /\ UNCHANGED <<custom, consistency, stage, puzzle_result, calls, callIndex, swt,
                   worker_solution>>
    /\ UNCHANGED <<backend, kwargs, ortoolsLib, constraintLib, solver, rules, state,
                   csp, mainPc, problem, workerPc, deadline, solution_container,
                   error_container, timedOut, result>>

\* the wall clock reaches the deadline of solver_thread.join(timeout)
DeadlineElapses ==
    /\ mainPc = "joining"
    /\ ~deadline
    /\ deadline' = TRUE
    /\ UNCHANGED <<custom, consistency, stage, puzzle_result>>
    /\ UNCHANGED <<backend, kwargs, ortoolsLib, constraintLib, solver, rules, state,
                   csp, mainPc, problem, workerPc, solution_container,
                   error_container, timedOut, result>>
    /\ UNCHANGED callVars

\* a join without timeout: only the end of the worker lets it return
JoinWaitsForWorker(worker, elapsed) == worker = "finished"

\* solver_thread.join(timeout) returns: the worker ended or the deadline elapsed
JoinMayReturn(worker, elapsed) == worker = "finished" \/ elapsed

JoinReturns ==
    /\ mainPc = "joining"
    /\ JoinMayReturn(workerPc, deadline)
    /\ mainPc' = "joined"
    /\ UNCHANGED <<custom, consistency, stage, puzzle_result>>
    /\ UNCHANGED <<backend, kwargs, ortoolsLib, constraintLib, solver, rules, state,
                   csp, problem, workerPc, deadline, solution_container,
                   error_container, timedOut, result>>
    /\ UNCHANGED callVars

\* solve without the is_alive() test after the join
SolveResult_ignoring_alive(alive, error, solution) ==
    IF error /= None THEN NoneResult
    ELSE solution

\* the value solve returns after the join
SolveResult(alive, error, solution) ==
    IF alive THEN NoneResult
    ELSE IF error /= None THEN NoneResult
    ELSE solution

\* CSPSolver.solve from solver_thread.is_alive() to its return
SolveReturn ==
    /\ mainPc = "joined"
    /\ mainPc' = "returned"
    /\ timedOut' = (workerPc /= "finished")
    /\ result' = SolveResult(workerPc /= "finished", error_container, solution_container)
    \* the finally clause of solve_with_timeout
    /\ solver' = IF swt.active
                 THEN [solver EXCEPT
                         !.timeout = restored_timeout(swt.original_timeout, solver.timeout)]
                 ELSE solver
    /\ swt' = NoTimeoutCall
    /\ UNCHANGED <<custom, consistency, stage, puzzle_result, calls, callIndex,
                   worker_solution, abandoned>>
    /\ UNCHANGED <<backend, kwargs, ortoolsLib, constraintLib, rules, state,
                   csp, problem, workerPc, deadline, solution_container,
                   error_container>>

\* ORToolsSolver.solve
ORToolsSolve ==
    /\ solver.kind = "ORToolsSolver"
    /\ csp.kind = "CSPProblem"
    /\ mainPc = "idle"
    /\ mainPc' = "returned"
    /\ LET model == build_ortools_model(csp)
       IN IF model.kind = None
          THEN result' = NoneResult /\ timedOut' = FALSE
          ELSE \/ \* status UNKNOWN: max_time_in_seconds ran out
                  /\ result' = NoneResult
                  /\ timedOut' = TRUE
               \/ \* status INFEASIBLE, or OPTIMAL / FEASIBLE with some solution
                  /\ ModelSearchSpace(model, csp.order) <= MaxSearchSpace
                  /\ timedOut' = FALSE
                  /\ IF ModelSolutions(model) = {}
                     THEN result' = NoneResult
                     ELSE \E a \in ModelSolutions(model) : result' = DictResult(a)
    \* solve_with_timeout sets self.timeout for the call and its finally
    \* clause sets it again
    /\ LET call == calls[callIndex]
       IN solver' = IF call.op = "solve_with_timeout"
                    THEN [solver EXCEPT
                            !.timeout = restored_timeout(solver.timeout, call.timeout)]
                    ELSE solver
    /\ UNCHANGED <<custom, consistency, stage, puzzle_result>>
    /\ UNCHANGED callVars
    /\ UNCHANGED <<backend, kwargs, ortoolsLib, constraintLib, rules, state,
                   csp, problem, workerPc, deadline, solution_container,
                   error_container>>

\* the caller turns to its next call on the same solver and the same problem
NextCall ==
    /\ mainPc = "returned"
    /\ callIndex < Len(calls)
    /\ callIndex' = callIndex + 1
    /\ mainPc' = "idle"
    /\ UNCHANGED <<custom, consistency, stage, puzzle_result, calls, swt,
                   worker_solution, abandoned>>
    /\ UNCHANGED <<backend, kwargs, ortoolsLib, constraintLib, solver, rules, state,
                   csp, problem, workerPc, deadline, solution_container,
                   error_container, timedOut, result>>

\* the caller adds the next of its own constraints to the built problem
AddConstraint ==
    /\ csp.kind = "CSPProblem"
    /\ mainPc = "idle"
    /\ Len(custom.pending) > 0
    /\ LET c == custom.pending[1]
       IN csp' = add_constraint(csp, c.name, c.scope, c.predicate, c.parameters)
    /\ custom' = [pending |-> Tail(custom.pending), added |-> custom.added + 1]
    /\ UNCHANGED <<backend, kwargs, ortoolsLib, constraintLib, solver, rules, state,
                   mainPc, problem, workerPc, deadline, solution_container,
                   error_container, timedOut, result, consistency, stage,
                   puzzle_result>>
    /\ UNCHANGED callVars

\* the caller probes the built problem with is_consistent instead of solving
\* it; the Variable.value fields the call leaves behind are consistency.after
IsConsistent ==
    /\ csp.kind = "CSPProblem"
    /\ mainPc = "idle"
    /\ \E call \in ConsistencyCalls :
        /\ DOMAIN call[1] \cup {call[2]} \subseteq DOMAIN csp.variables
        /\ consistency' = is_consistent(csp, call[1], call[2], call[3])
    /\ mainPc' = "checked"
    /\ UNCHANGED <<backend, kwargs, ortoolsLib, constraintLib, solver, rules, state,
                   csp, problem, workerPc, deadline, solution_container,
                   error_container, timedOut, result, custom, stage, puzzle_result>>
    /\ UNCHANGED callVars

\* solve_puzzle, step 4, from the return of self.csp_solver.solve(csp)
FinishPuzzle ==
    /\ stage = "csp_solving"
    /\ mainPc = "returned"
    /\ callIndex = Len(calls)
    /\ puzzle_result' = after_solving(puzzle_result, result)
    /\ stage' = "done"
    /\ UNCHANGED <<backend, kwargs, ortoolsLib, constraintLib, solver, rules, state,
                   csp, mainPc, problem, workerPc, deadline, solution_container,
                   error_container, timedOut, result, custom, consistency>>
    /\ UNCHANGED callVars

Next ==
    \/ CreateSolver
    \/ InferRules
    \/ ExtractState
    \/ Translate
    \/ AddConstraint
    \/ IsConsistent
    \/ FinishPuzzle
    \/ SolveStart
    \/ WorkerFinish
    \/ DeadlineElapses
    \/ JoinReturns
    \/ SolveReturn
    \/ ORToolsSolve
    \/ WorkerExit
    \/ AbandonedWorkerFinish
    \/ AbandonedWorkerExit
    \/ NextCall

Spec == Init /\ [][Next]_vars

\* the caller's thread is scheduled; nothing is assumed of the worker
FairSpec == Spec /\ WF_vars(JoinReturns) /\ WF_vars(SolveReturn)

(***************************************************************************)
(* Properties.                                                             *)
(***************************************************************************)
GenericReturned == solver.kind = "CSPSolver" /\ mainPc = "returned"
ORToolsReturned == solver.kind = "ORToolsSolver" /\ mainPc = "returned"

\* the values an assignment gives to the variables of a scope
Projection(a, scope) == Dict([var \in ListSet(scope) |-> a[var]])

\* an assignment is complete and satisfies every predicate on its own scope
Consistent(p, a) ==
    /\ DOMAIN a = DOMAIN p.variables
    /\ \A i \in 1..Len(p.constraints) :
        LET c == p.constraints[i]
        IN c.predicate.fn /= None =>
            /\ ListSet(c.scope) \subseteq DOMAIN a
            /\ ~PredicateRaises(c.predicate, Projection(a, c.scope), c.parameters)
            /\ CallPredicate(c.predicate, Projection(a, c.scope), c.parameters)

\* two cells of one row are filled with the same value
RowDuplicate(st) ==
    \E r \in 0..(st.grid_size[1] - 1) :
        \E c1, c2 \in 0..(st.grid_size[2] - 1) :
            /\ c1 /= c2
            /\ <<r, c1>> \in DOMAIN st.filled_cells
            /\ <<r, c2>> \in DOMAIN st.filled_cells
            /\ st.filled_cells[<<r, c1>>] = st.filled_cells[<<r, c2>>]

\* C1: every assignment CSPSolver.solve returns is complete and makes every
\* constraint predicate true on that constraint's own scope; a row holding
\* two equal fixed values under an ALL_DIFFERENT constraint yields None.
C1_GenericSolveIsSound ==
    (GenericReturned /\ result.kind = "dict") => Consistent(csp, result.value)

\* C2: the all-empty 9x9 state with the three canonical rules translates to
\* 81 variables of domain [1..9] and 27 constraints of scope size 9.
C2_CanonicalTranslation ==
    (/\ csp.kind = "CSPProblem"
     /\ rules = CanonicalRules
     /\ state = PuzzleState(Sudoku, EmptyDict, EmptyDict))
    => /\ Cardinality(DOMAIN csp.variables) = 81
       /\ \A name \in DOMAIN csp.variables : csp.variables[name].domain = Range1To10
       /\ Len(csp.constraints) = 27
       /\ \A i \in 1..Len(csp.constraints) : Len(csp.constraints[i].scope) = 9

\* C3: every variable name in every constraint scope of a translated problem
\* is a key of the problem's variables.
C3_ScopesAreVariables ==
    csp.kind = "CSPProblem" =>
        \A i \in 1..Len(csp.constraints) :
            ListSet(csp.constraints[i].scope) \subseteq DOMAIN csp.variables

\* C4: a completely and validly filled state with the three canonical rules
\* is solved, by either solver, to exactly the filled values.
C4_SolvedStateIsReturned ==
    (/\ mainPc = "returned"
     /\ ~timedOut
     /\ rules = CanonicalRules
     /\ state = PuzzleState(Sudoku, SolvedGrid, EmptyDict))
    => /\ result.kind = "dict"
       /\ \A cell \in GridCells(Sudoku) :
            result.value[CellName(cell[1], cell[2])] = SolvedValue(cell[1], cell[2])

\* C5: once the join deadline has elapsed solve returns to its caller,
\* whether or not the worker ever ends, and a solve that finds the worker
\* still running returns None (with a zero timeout too).
C5_SolveReturnsAfterDeadline ==
    /\ [](GenericReturned /\ timedOut => result.kind = None)
    /\ ((mainPc = "joining" /\ deadline) ~> (mainPc = "returned"))

C5_Witness ==
    /\ GenericReturned
    /\ solver.timeout = 0
    /\ timedOut
    /\ workerPc = "running"
    /\ result.kind = None

TokenIndices == 0..10

IsRowToken(tok) == \E i \in TokenIndices : tok = ROW \o str(i)
IsColToken(tok) == \E j \in TokenIndices : tok = COL \o str(j)
IsBoxToken(tok) == \E k \in TokenIndices : tok = BOX \o str(k)
IsCellToken(tok) == \E r, c \in TokenIndices : tok = CellName(r, c)

WellFormedToken(tok) ==
    IsRowToken(tok) \/ IsColToken(tok) \/ IsBoxToken(tok) \/ IsCellToken(tok)

\* the part of a scope a token must expand to
ExpectedLen(tok) == IF IsCellToken(tok) THEN 1 ELSE 9

ExpectedSegment(tok, seg) ==
    /\ \A i \in TokenIndices :
        tok = ROW \o str(i) => seg = [c \in 1..9 |-> CellName(i, c - 1)]
    /\ \A j \in TokenIndices :
        tok = COL \o str(j) => seg = [r \in 1..9 |-> CellName(r - 1, j)]
    /\ \A k \in TokenIndices :
        tok = BOX \o str(k) =>
            /\ Len(seg) = 9
            /\ ListSet(seg) =
                {CellName(r, c) : r \in (3 * (k \div 3))..(3 * (k \div 3) + 2),
                                  c \in (3 * (k % 3))..(3 * (k % 3) + 2)}
    /\ IsCellToken(tok) => seg = <<tok>>

RECURSIVE ExpectedOffset(_, _)
ExpectedOffset(toks, k) ==
    IF k = 1 THEN 0 ELSE ExpectedOffset(toks, k - 1) + ExpectedLen(toks[k - 1])

\* every rule of the rule set produces a constraint, built from well-formed tokens
AllRulesWellFormed ==
    \A i \in 1..Len(rules) :
        /\ rules[i].constraint_type \in {"ALL_DIFFERENT", "SUM", "ARITHMETIC"}
        /\ Len(rules[i].scope) > 0
        /\ \A k \in 1..Len(rules[i].scope) : WellFormedToken(rules[i].scope[k])

\* C6: scope expansion maps, token by token and in order, row_i to
\* cell_i_0..cell_i_8, col_j to cell_0_j..cell_8_j, box_k to the nine cells of
\* the block with top-left (3*(k div 3), 3*(k mod 3)), and cell_r_c to itself.
C6_ScopeExpansion ==
    (csp.kind = "CSPProblem" /\ mainPc = "idle" /\ custom.added = 0 /\ AllRulesWellFormed) =>
        /\ Len(csp.constraints) = Len(rules)
        /\ \A i \in 1..Len(rules) :
            LET toks == rules[i].scope
                scope == csp.constraints[i].scope
            IN /\ Len(scope) = ExpectedOffset(toks, Len(toks)) + ExpectedLen(toks[Len(toks)])
               /\ \A k \in 1..Len(toks) :
                    ExpectedSegment(toks[k],
                        SubSeq(scope, ExpectedOffset(toks, k) + 1,
                               ExpectedOffset(toks, k) + ExpectedLen(toks[k])))

C6_Witness ==
    /\ csp.kind = "CSPProblem"
    /\ mainPc = "idle"
    /\ rules = UnitRules
    /\ rules[23].scope = <<<<"b", "o", "x", "_", "4">>>>
    /\ ListSet(csp.constraints[23].scope) =
        {<<"c", "e", "l", "l", "_", "3", "_", "3">>, <<"c", "e", "l", "l", "_", "3", "_", "4">>,
         <<"c", "e", "l", "l", "_", "3", "_", "5">>, <<"c", "e", "l", "l", "_", "4", "_", "3">>,
         <<"c", "e", "l", "l", "_", "4", "_", "4">>, <<"c", "e", "l", "l", "_", "4", "_", "5">>,
         <<"c", "e", "l", "l", "_", "5", "_", "3">>, <<"c", "e", "l", "l", "_", "5", "_", "4">>,
         <<"c", "e", "l", "l", "_", "5", "_", "5">>}

C8_TranslationNeverFails ==
    csp.kind /= NotRun => csp.kind = "CSPProblem"

\* C9: every value ORToolsSolver.solve returns is a member of the domain of
\* its variable, also when the domain is not contiguous.
C9_ORToolsValuesInDomain ==
    (ORToolsReturned /\ result.kind = "dict") =>
        \A name \in DOMAIN csp.variables :
            result.value[name] \in ListSet(csp.variables[name].domain)

\* C10: create_solver with a backend name other than 'ortools', 'constraint'
\* or 'auto' raises ValueError, whichever solver libraries are installed.
C10_UnknownBackendRaises ==
    (solver.kind /= NotRun /\ backend \notin {"ortools", "constraint", "auto"})
        => solver.kind = "ValueError"

C10_Witness ==
    /\ backend = "generic"
    /\ ~ortoolsLib
    /\ constraintLib
    /\ solver.kind = "ValueError"

\* the options both constructors accept
CommonOptions == {"timeout"}

\* C11: create_solver('auto', **options) returns an ORToolsSolver when
\* OR-Tools is available and otherwise a CSPSolver, without raising, for
\* every set of options the specialized solver accepts (timeout, num_workers).
C11_AutoFallsBack ==
    (/\ solver.kind /= NotRun
     /\ backend = "auto"
     /\ constraintLib
     /\ DOMAIN kwargs \subseteq {"timeout", "num_workers"})
    => solver.kind = (IF ortoolsLib THEN "ORToolsSolver" ELSE "CSPSolver")

\* C12: create_solver raises ImportError when the library of the requested
\* backend is not installed: 'ortools' without OR-Tools, 'constraint' without
\* python-constraint.
C12_MissingLibraryRaises ==
    (/\ solver.kind /= NotRun
     /\ DOMAIN kwargs \subseteq CommonOptions
     /\ \/ backend = "ortools" /\ ~ortoolsLib
        \/ backend = "constraint" /\ ~constraintLib)
    => solver.kind = "ImportError"

\* C17: a PuzzleState built from a grid size and some filled cells, without
\* an empty-cell list, lists every unfilled cell in empty_cells;
\* get_cell_value gives a filled cell's value and None for an unfilled cell;
\* to_grid holds exactly the filled values.
C17_EmptyCellsListed ==
    DOMAIN state.filled_cells /= {} =>
        /\ \A cell \in GridCells(state.grid_size) \ DOMAIN state.filled_cells :
            /\ cell \in ListSet(state.empty_cells)
            /\ get_cell_value(state, cell[1], cell[2]) = None
            /\ to_grid(state)[cell[1] + 1][cell[2] + 1] = None
        /\ \A cell \in DOMAIN state.filled_cells :
            /\ get_cell_value(state, cell[1], cell[2]) = state.filled_cells[cell]
            /\ to_grid(state)[cell[1] + 1][cell[2] + 1] = state.filled_cells[cell]

\* C13: solve returns None or a total assignment: the keys of every returned
\* assignment are exactly the variable names of the problem, and a timeout
\* or an error of the search yields None.
C13_NoneOrTotalAssignment ==
    mainPc = "returned" =>
        /\ \/ result.kind = None /\ DOMAIN result.value = {}
           \/ result.kind = "dict" /\ DOMAIN result.value = DOMAIN csp.variables
        /\ (timedOut \/ error_container /= None \/ problem.kind = None)
            => result.kind = None

C13_Witness ==
    /\ mainPc = "returned"
    /\ result.kind = "dict"
    /\ Cardinality(DOMAIN result.value) = 81
    /\ \E name \in DOMAIN csp.variables : Len(csp.variables[name].domain) > 1

\* assignments that leave at least one variable of the scope out: all but
\* one variable, and the subsets of the first two, every value the same
PartialAssignments(scope) ==
    LET names == ListSet(scope)
        head == {scope[k] : k \in 1..Min(2, Len(scope))}
        family == {names \ {x} : x \in names} \cup {S \in SUBSET head : S /= names}
    IN {Dict([n \in S |-> v]) : S \in family, v \in {1, 5}}

\* C14: the ALL_DIFFERENT and SUM predicates of the translator accept every
\* assignment that leaves a scope variable unassigned, is_consistent calls a
\* predicate only when every scope variable has a value, and a lone assigned
\* singleton-domain variable does not violate ALL_DIFFERENT.
C14_PartialNeverRejected ==
    /\ (csp.kind = "CSPProblem" /\ mainPc = "idle") =>
        \A i \in 1..Len(csp.constraints) :
            LET c == csp.constraints[i]
            IN /\ c.predicate.fn \in {"all_different_predicate", "sum_predicate"} =>
                    \A a \in PartialAssignments(c.scope) :
                        /\ ~PredicateRaises(c.predicate, a, c.parameters)
                        /\ CallPredicate(c.predicate, a, c.parameters)
               /\ c.predicate.fn = "all_different_predicate" =>
                    \A n \in ListSet(c.scope) \cap DOMAIN csp.variables :
                        Len(csp.variables[n].domain) = 1 =>
                            CallPredicate(c.predicate,
                                          With(EmptyDict, n, csp.variables[n].domain[1]),
                                          c.parameters)
    /\ consistency.kind /= NotRun =>
        \A i \in consistency.evaluated :
            ListSet(csp.constraints[i].scope) \subseteq DOMAIN consistency.assigned

C14_Witness ==
    /\ consistency.kind = "bool"
    /\ consistency.value
    /\ consistency.evaluated = {}
    /\ \E i \in 1..Len(csp.constraints) :
        /\ csp.constraints[i].predicate.fn = "all_different_predicate"
        /\ consistency.variable_name \in ListSet(csp.constraints[i].scope)
        /\ Len(csp.constraints[i].scope) = 9
        /\ Len(csp.variables[consistency.variable_name].domain) = 1

\* the constraints ORToolsSolver hands to _generate_allowed_assignments
Enumerated(c, p) ==
    /\ c.predicate.fn /= None
    /\ ListSet(c.scope) \subseteq DOMAIN p.variables
    /\ ~Contains(lower(c.name), <<"a", "l", "l", "_", "d", "i", "f", "f", "e", "r", "e", "n", "t">>)
    /\ ~Contains(lower(c.name), <<"a", "l", "l", "d", "i", "f", "f">>)
    /\ ~Contains(lower(c.name), <<"s", "u", "m">>)
    /\ Len(c.scope) <= 4

\* C15: a predicate that raises counts as violated wherever it is evaluated:
\* no assignment the generic solver returns made a wrapped predicate raise,
\* is_consistent returns False when a predicate it calls raises, and no
\* assignment the specialized solver returns makes an enumerated predicate
\* raise.
C15_PredicateErrorIsViolation ==
    /\ (GenericReturned /\ result.kind = "dict") =>
        \A i \in 1..Len(problem.constraints) :
            LET c == problem.constraints[i]
                args == [k \in 1..Len(c.scope) |-> result.value[c.scope[k]]]
            IN ~PredicateRaises(c.pred, ZipDict(problem.constraint, args), c.params)
    /\ consistency.kind /= NotRun =>
        \A i \in consistency.evaluated :
            LET c == csp.constraints[i]
            IN PredicateRaises(c.predicate, Projection(consistency.assigned, c.scope),
                               c.parameters)
                => (consistency.kind = "bool" /\ ~consistency.value)
    /\ (ORToolsReturned /\ result.kind = "dict") =>
        \A i \in 1..Len(csp.constraints) :
            LET c == csp.constraints[i]
            IN Enumerated(c, csp) =>
                ~PredicateRaises(c.predicate, Projection(result.value, c.scope),
                                 c.parameters)

\* C19: for a constraint of at most 4 variables that is neither a native
\* all-different nor a native sum, every assignment ORToolsSolver.solve
\* returns projects onto a tuple of the scope's domains which the predicate
\* accepts; when the predicate accepts no such tuple, solve returns None.
C19_EnumeratedConstraintsHold ==
    ORToolsReturned =>
        \A i \in 1..Len(csp.constraints) :
            LET c == csp.constraints[i]
                accepted(a) ==
                    /\ \A k \in 1..Len(c.scope) :
                        a[c.scope[k]] \in ListSet(csp.variables[c.scope[k]].domain)
                    /\ ~PredicateRaises(c.predicate, a, c.parameters)
                    /\ CallPredicate(c.predicate, a, c.parameters)
            IN Enumerated(c, csp) =>
                /\ result.kind = "dict" => accepted(Projection(result.value, c.scope))
                /\ (\A t \in CompleteAssignments(
                            Dict([n \in ListSet(c.scope) |-> csp.variables[n].domain])) :
                        ~accepted(t))
                    => result.kind = None

\* C20: the generic solver is complete: when the deadline does not expire
\* it returns None only if no assignment of domain values to all variables
\* makes every predicate true on its own constraint's scope.
C20_GenericSolveIsComplete ==
    (/\ GenericReturned
     /\ ~timedOut
     /\ result.kind = None
     /\ problem.kind = "Problem"
     /\ ProblemSearchSpace(problem) <= MaxSearchSpace)
    => \A a \in CompleteAssignments(ProblemDomains(problem)) : ~Consistent(csp, a)

StageOrder == <<"rule_inference", "state_extraction", "csp_translation", "csp_solving">>

C29_ScopesHaveNoRepeats ==
    (csp.kind = "CSPProblem" /\ custom.added = 0) =>
        \A k \in 1..Len(csp.constraints) :
            LET scope == csp.constraints[k].scope
            IN \A i, j \in 1..Len(scope) : scope[i] = scope[j] => i = j

ConstraintNames == [k \in 1..Len(csp.constraints) |-> csp.constraints[k].name]

\* C30: in every problem translate returns, the constraint names are
\* pairwise distinct, also when rules were skipped between rules that
\* produced constraints
C30_ConstraintNamesDistinct ==
    (csp.kind = "CSPProblem" /\ custom.added = 0) =>
        \A i, j \in 1..Len(csp.constraints) :
            ConstraintNames[i] = ConstraintNames[j] => i = j

\* a translation of one of the lists with a skipped rule in the middle
C30_Witness ==
    /\ csp.kind = "CSPProblem"
    /\ custom.added = 0
    /\ rules \in SkipLists
    /\ Len(csp.constraints) >= 2
    /\ Len(csp.constraints) < Len(rules)
    /\ \E i \in 1..Len(csp.constraints) - 1 :
            csp.constraints[i].predicate.fn = csp.constraints[i + 1].predicate.fn
\* the cells a token stands for; a token of no known format stands for none
TokenCells(tok) ==
    IF IsRowToken(tok) THEN
        LET i == CHOOSE i \in TokenIndices : tok = ROW \o str(i)
        IN [c \in 1..9 |-> CellName(i, c - 1)]
    ELSE IF IsColToken(tok) THEN
        LET j == CHOOSE j \in TokenIndices : tok = COL \o str(j)
        IN [r \in 1..9 |-> CellName(r - 1, j)]
    ELSE IF IsBoxToken(tok) THEN
        LET k == CHOOSE k \in TokenIndices : tok = BOX \o str(k)
        IN [n \in 1..9 |-> CellName((3 * (k \div 3)) + ((n - 1) \div 3),
                                     (3 * (k % 3)) + ((n - 1) % 3))]
    ELSE IF IsCellToken(tok) THEN <<tok>>
    ELSE <<>>

RuleCells(rule) == Concat([k \in 1..Len(rule.scope) |-> TokenCells(rule.scope[k])])

ProducesConstraint(rule) ==
    /\ rule.constraint_type \in {"ALL_DIFFERENT", "SUM", "ARITHMETIC"}
    /\ RuleCells(rule) /= <<>>

\* the scopes of the constraints the rule set stands for, in rule order
RECURSIVE ExpectedScopes(_)
ExpectedScopes(k) ==
    IF k = 0 THEN <<>>
    ELSE ExpectedScopes(k - 1) \o
            (IF ProducesConstraint(rules[k]) THEN <<RuleCells(rules[k])>> ELSE <<>>)

\* C22: a rule whose tokens expand to no variable, or whose kind is not
\* ALL_DIFFERENT, SUM or ARITHMETIC, adds nothing and leaves the variables
\* and the constraints already added alone; every other rule becomes, in rule
\* order, one constraint over the expansion of its known tokens
C22_SkippedRulesLeaveTheRest ==
    (csp.kind /= NotRun /\ custom.added = 0) =>
        /\ csp.kind = "CSPProblem"
        /\ csp.variables = translate(<<>>, state).variables
        /\ [k \in 1..Len(csp.constraints) |-> csp.constraints[k].scope]
                = ExpectedScopes(Len(rules))
\* the problem the generic solver searches has just been built
ProblemBuilt == mainPc = "joining" /\ workerPc = "running" /\ problem.kind = "Problem"

DomainSize(i) == Len(csp.variables[csp.order[i]].domain)

WithPredicate == {i \in 1..Len(csp.constraints) : csp.constraints[i].predicate.fn /= None}

ScopeSize(i) == Len(csp.constraints[i].scope)

\* place of element i in a stable sort by size: after the elements of `among`
\* that the order puts first and after the earlier ones of equal size
Place(sizes, among, i, descending) ==
    Cardinality({j \in among :
                    \/ IF descending THEN sizes[j] > sizes[i] ELSE sizes[j] < sizes[i]
                    \/ sizes[j] = sizes[i] /\ j < i}) + 1

\* C24: the generic solver registers the variables by ascending domain size
\* and the constraints that have a predicate by descending scope size, equal
\* sizes in their original order; constraints without predicate are left out
C24_RegistrationOrder ==
    ProblemBuilt =>
        LET nv == Len(csp.order)
            nc == Len(csp.constraints)
            domain_sizes == List([i \in 1..nv |-> DomainSize(i)])
            scope_sizes == List([i \in 1..nc |-> ScopeSize(i)])
        IN /\ Len(problem.variables) = nv
           /\ \A i \in 1..nv :
                LET registered == problem.variables[Place(domain_sizes, 1..nv, i, FALSE)]
                IN /\ registered.name = csp.order[i]
                   /\ registered.domain = csp.variables[csp.order[i]].domain
           /\ \A k \in 1..nv - 1 :
                Len(problem.variables[k].domain) <= Len(problem.variables[k + 1].domain)
           /\ Len(problem.constraints) = Cardinality(WithPredicate)
           /\ \A i \in WithPredicate :
                LET registered ==
                        problem.constraints[Place(scope_sizes, WithPredicate, i, TRUE)]
                IN /\ registered.scope = csp.constraints[i].scope
                   /\ registered.pred = csp.constraints[i].predicate
                   /\ registered.params = csp.constraints[i].parameters
           /\ \A k \in 1..Len(problem.constraints) - 1 :
                Len(problem.constraints[k].scope) >= Len(problem.constraints[k + 1].scope)

\* a problem whose variables and constraints both had to be reordered, with
\* a constraint without predicate left out and two constraints of equal size
C24_Witness ==
    /\ ProblemBuilt
    /\ DomainSize(1) > DomainSize(2)
    /\ \E i, j \in WithPredicate : i < j /\ ScopeSize(i) < ScopeSize(j)
    /\ \E i, j \in WithPredicate : i < j /\ ScopeSize(i) = ScopeSize(j)
    /\ WithPredicate /= 1..Len(csp.constraints)
\* C23: is_consistent assigns the value only for the duration of the call:
\* whether it returns True or False or raises, every Variable.value is
\* afterwards what it was before the call
C23_AssignmentIsTransient ==
    consistency.kind /= NotRun => consistency.after = consistency.values
\* every constraint of the problem is an all-different or a sum constraint
\* the translator built
OnlyAllDifferentAndSum ==
    /\ custom.added = 0
    /\ \A i \in 1..Len(csp.constraints) :
        csp.constraints[i].predicate.fn \in {"all_different_predicate", "sum_predicate"}

\* every domain is a range lo..hi listed once
ContiguousDomains ==
    \A name \in DOMAIN csp.variables :
        LET domain == csp.variables[name].domain
        IN /\ Len(domain) > 0
           /\ Cardinality(ListSet(domain)) = Len(domain)
           /\ ListSet(domain) = ListMin(domain)..ListMax(domain)

\* CSPSolver.solve on p returns None when its search ends in time
GenericFindsNone(p) ==
    LET prob == build_constraint_problem(p)
    IN \/ prob.kind = None
       \/ getSolutionRaises(prob)
       \/ Len(prob.variables) = 0
       \/ getSolutions(prob) = {}

\* ORToolsSolver.solve on p returns None when its search ends in time
ORToolsFindsNone(p) ==
    LET model == build_ortools_model(p)
    IN model.kind = None \/ ModelSolutions(model) = {}

\* C27: on a translated problem of all-different and sum constraints over
\* contiguous domains, and with no timeout expiring, the generic solver
\* returns None exactly when the OR-Tools solver returns None
C27_SolversAgreeOnSolvability ==
    (/\ mainPc = "returned"
     /\ ~timedOut
     /\ csp.kind = "CSPProblem"
     /\ OnlyAllDifferentAndSum
     /\ ContiguousDomains
     /\ ModelSearchSpace(build_ortools_model(csp), csp.order) <= MaxSearchSpace)
    => IF solver.kind = "CSPSolver"
       THEN (result.kind = None) <=> ORToolsFindsNone(csp)
       ELSE (result.kind = None) <=> GenericFindsNone(csp)
\* C21: a solve that finds its worker still alive after the join returns
\* None without stopping the worker or waiting for it, and what the worker
\* stores afterwards never changes the value that call returned
C21_TimedOutSolveLeavesWorker ==
    [][/\ (mainPc = "joined" /\ mainPc' = "returned" /\ workerPc /= "finished")
            => (result'.kind = None /\ timedOut' /\ workerPc' = workerPc)
       /\ (mainPc = "returned" /\ mainPc' = "returned") => result' = result]_vars

\* solve has returned None on a timeout and its worker has gone on, stored a
\* solution and ended
C21_Witness ==
    /\ GenericReturned
    /\ solver.timeout /= 0
    /\ timedOut
    /\ result.kind = None
    /\ workerPc = "finished"
    /\ solution_container.kind = "dict"

\* the timeout the solver was created with
ConfiguredTimeout == create_solver(backend, kwargs, ortoolsLib, constraintLib).timeout

\* C25: solve_with_timeout runs solve with its own timeout and leaves the
\* solver's timeout as it found it, so the timeout is the configured one
\* between calls and during every plain solve
C25_TimeoutRestored ==
    solver.kind \in {"CSPSolver", "ORToolsSolver"} =>
        solver.timeout =
            IF mainPc \in {"joining", "joined"}
               /\ calls[callIndex].op = "solve_with_timeout"
            THEN calls[callIndex].timeout
            ELSE ConfiguredTimeout

\* a plain solve that ran with the configured timeout and found a solution
\* after two solve_with_timeout calls, one of which timed out
C25_Witness ==
    /\ GenericReturned
    /\ Len(calls) = 3
    /\ callIndex = 3
    /\ calls[1].timeout /= ConfiguredTimeout
    /\ calls[2].timeout /= ConfiguredTimeout
    /\ abandoned /= <<>>
    /\ ~timedOut
    /\ result.kind = "dict"
    /\ solver.timeout = 60

\* C26: every solve call returns None or what the worker of that call got
\* from its search, whatever the workers of earlier calls store meanwhile
C26_OnlyOwnWorkerCounts ==
    GenericReturned =>
        /\ result \in {NoneResult, worker_solution}
        /\ ~timedOut =>
            result = IF worker_solution.kind = "dict" THEN worker_solution ELSE NoneResult

\* a later call has returned a solution while the worker of an earlier,
\* timed-out call has stored a different one
C26_Witness ==
    /\ GenericReturned
    /\ callIndex > 1
    /\ result.kind = "dict"
    /\ \E i \in 1..Len(abandoned) :
        /\ abandoned[i].solution_container.kind = "dict"
        /\ abandoned[i].solution_container /= result

\* C28: no step of CSPSolver.solve or ORToolsSolver.solve, nor of a worker,
\* changes the CSPProblem: names, domains, values and constraints stay
C28_SolveLeavesProblem ==
    [][(/\ mainPc' /= "checked"
        /\ \/ mainPc /= "idle"
           \/ mainPc' /= "idle"
           \/ workerPc' /= workerPc
           \/ abandoned' /= abandoned)
       => csp' = csp]_vars

\* a solve has returned a solution for a problem with an open variable and
\* constraints that are not in descending order of scope size
C28_Witness ==
    /\ mainPc = "returned"
    /\ result.kind = "dict"
    /\ \E name \in DOMAIN csp.variables : Len(csp.variables[name].domain) > 1
    /\ \E i, j \in 1..Len(csp.constraints) :
        i < j /\ Len(csp.constraints[i].scope) < Len(csp.constraints[j].scope)
====
